---- MODULE Spec2Model ----
(***************************************************************************)
(* State-machine model of the camera core (src/camera.py, class Camera):   *)
(* the device session (open / close / update_settings), the recording      *)
(* controller (start_recording with its codec negotiation, stop_recording) *)
(* and the duration-bounded recording loop (record_video), which is        *)
(* modelled statement by statement so that an interrupt or an exception    *)
(* can arrive between any two of its steps.                                *)
(*                                                                         *)
(* File names are sequences of atoms: "." is a dot, ".mp4" and ".avi" are   *)
(* a dot followed by that extension, every other atom is a non-empty run   *)
(* of characters without a dot (and no such run is "mp4" or "avi").  The   *)
(* tests str.endswith(".mp4") and Path.with_suffix are computed on that    *)
(* representation as Python computes them on characters.                   *)
(*                                                                         *)
(* Time is counted in ticks of 1/TicksPerSecond second.                    *)
(*                                                                         *)
(* The capture device is what cv2.VideoCapture gives access to: it has a   *)
(* configuration of its own (what cap.get reports) and either takes every  *)
(* positive value handed to cap.set or has a fixed configuration and takes *)
(* none.  A VideoCapture that is no longer referenced is released by its   *)
(* destructor (cv2 is a CPython extension, objects die with their last     *)
(* reference).                                                             *)
(*                                                                         *)
(* The specifications share the variables: Spec (the recording controller  *)
(* and record_video), SpecLoop (record_video under fairness), SpecSession  *)
(* (device configuration, with-scope), SpecSettings (the settings store),  *)
(* SpecPhoto (capture_photo and its file names), SpecList (list_cameras),  *)
(* SpecHandles (open taken statement by statement) and SpecGui (the        *)
(* handlers and preview threads of gui.py).                                *)
(***************************************************************************)
EXTENDS Integers, Sequences, FiniteSets, TLC

VARIABLES
    cap,                \* self.cap: "None", "unopened" (a VideoCapture whose isOpened() is false), "opened"
    is_recording,       \* self.is_recording
    video_writer,       \* self.video_writer: attribute unset, None, or a VideoWriter
    recording_filename, \* self.recording_filename (<<>> while the attribute is unset)
    settings,           \* self.settings
    openSinks,          \* number of VideoWriter objects of this controller that are open
    op,                 \* the public method called last
    ret,                \* what that call returned or raised
    attempts,           \* the VideoWriter constructions made by that call, in order
    pc,                 \* position of the thread inside record_video ("idle": not inside)
    rv,                 \* locals of the record_video call in progress (or last finished)
    dev,                \* configuration of the device behind self.cap, as cap.get reports it
    held,               \* number of VideoCapture objects that hold the device (opened, not released)
    io,                 \* what the last call was given and did: settings supplied, device read, file write
    scope,              \* "in" inside a `with` block on the camera, else "out"
    gui                 \* the CameraGUI object of gui.py and its threads (GuiInit: no GUI running)

vars == <<cap, is_recording, video_writer, recording_filename, settings,
          openSinks, op, ret, attempts, pc, rv, dev, held, io, scope, gui>>

----------------------------------------------------------------------------
(* Bounds of the model *)

MaxNameLen == 1
MaxDuration == 2
MaxLatency == 1
MaxFrames == 2
MaxPhotoNameLen == 3
MaxKwargs == 2
MaxDeviceId == 2
MaxPreviewThreads == 2

(* Program constants *)

DefaultWidth == 1280
DefaultHeight == 720
DefaultFps == 30
AdjustDefault == -1
FallbackWidth == 1280
FallbackHeight == 720
FallbackFps == 30
ProbeCount == 10
GuiWidth == 1280
GuiHeight == 720
GuiFps == 30

TicksPerSecond == DefaultFps

Atoms == {"a", ".", ".mp4"}
NoneName == <<"None">>
Names == UNION {[1..k -> Atoms] : k \in 0..MaxNameLen}
Filenames == {NoneName} \cup Names
\* the names given to record_video, whose file name handling is start_recording's
RecordNames == {NoneName, <<"a">>}

Mp4Ext == <<".mp4">>
AviExt == <<".avi">>

FpsValues == {0 - DefaultFps, 0, DefaultFps \div 2, DefaultFps}
Durations == 0..MaxDuration
Codecs == {"avc1", "mp4v", "MJPG"}
Exceptions == {"ZeroDivisionError", "KeyboardInterrupt", "cv2.error", "AttributeError"}

\* self.settings after __init__, lines 32-41
DefaultSettings ==
    [resolution |-> <<DefaultWidth, DefaultHeight>>, fps |-> DefaultFps,
     photo_format |-> "png", video_format |-> "avi", video_codec |-> "XVID",
     brightness |-> AdjustDefault, contrast |-> AdjustDefault,
     saturation |-> AdjustDefault]

\* values given to the settings: (0, 0) and fps 0 are accepted unvalidated
Resolutions == {<<DefaultWidth, DefaultHeight>>, <<640, 480>>, <<0, 0>>}
SessionFps == FpsValues \cap Nat
PhotoFormats == {"png", "jpg", "bmp"}
Levels == {AdjustDefault, 50}

\* keyword arguments of update_settings and entries of a settings file:
\* "zoom" is a key the settings do not have.  video_format and video_codec
\* are never read by camera.py, contrast and saturation are treated exactly
\* as brightness, so the calls of the model supply the keys below.
KwKeys == {"resolution", "fps", "photo_format", "brightness", "zoom"}
KwValues ==
    [resolution : Resolutions, fps : SessionFps, photo_format : {"png", "jpg"},
     brightness : Levels, zoom : {2}]
Restrict(f, S) == [k \in S |-> f[k]]
Kwargs ==
    {Restrict(v, S) : v \in KwValues,
                      S \in {T \in SUBSET KwKeys : Cardinality(T) <= MaxKwargs}}
\* a path at which os.path.exists is false
NoFile == [missing |-> TRUE]
SettingsFiles == {NoFile} \cup Kwargs
\* update_settings(resolution=..., fps=...), as cmd_photo and cmd_video call it
TripleKwargs == {kwargs \in Kwargs : DOMAIN kwargs \subseteq {"resolution", "fps"}}

\* photo file names: ".jpg" and ".png" are a dot followed by that extension
PhotoAtoms == {"a", ".jpg", ".png"}
PhotoNames == {NoneName} \cup UNION {[1..k -> PhotoAtoms] : k \in 0..MaxPhotoNameLen}
DotExt == [png |-> ".png", jpg |-> ".jpg", bmp |-> ".bmp"]

\* devices: what cap.get reports on a fresh VideoCapture, and whether the
\* device takes the values handed to cap.set
NoDevice ==
    [width |-> 0, height |-> 0, fps |-> 0, brightness |-> AdjustDefault,
     contrast |-> AdjustDefault, saturation |-> AdjustDefault, honours |-> FALSE]
Device(size, fps, honours) ==
    [NoDevice EXCEPT !.width = size[1], !.height = size[2], !.fps = fps,
                     !.honours = honours]
Webcam == Device(<<640, 480>>, DefaultFps \div 2, TRUE)
Devices ==
    {Device(size, DefaultFps \div 2, h) : size \in {<<640, 480>>, <<0, 0>>},
                                          h \in BOOLEAN}

----------------------------------------------------------------------------
(* Values *)

NoPath == <<>>
Ret(tag) == [tag |-> tag, path |-> NoPath]
RetPath(p) == [tag |-> "path", path |-> p]

WriterUnset == [state |-> "unset", codec |-> "", path |-> NoPath, opened |-> FALSE]
WriterNone == [state |-> "None", codec |-> "", path |-> NoPath, opened |-> FALSE]
Writer(codec, path, opened) ==
    [state |-> "writer", codec |-> codec, path |-> path, opened |-> opened]

\* what a list_cameras call did: the IDs whose probe opened, the list it
\* returned, the number of probe handles it left open
NoProbe == [opened |-> {}, available |-> <<>>, unreleased |-> 0]

\* kwargs: the settings supplied; name: the file name given; read: "none",
\* or what the device read yielded; file: "none", "written" or "failed";
\* fresh: the VideoCapture open has constructed and not yet bound to cap
NoIO == [kwargs |-> [k \in {} |-> 0], name |-> NoPath, read |-> "none",
         file |-> "none", probe |-> NoProbe,
         fresh |-> [ok |-> FALSE, dev |-> NoDevice]]

\* CameraGUI.__init__, gui.py lines 41-45, and the buttons as _setup_ui
\* leaves them (started: Stop, Photo and Record enabled, Start disabled)
GuiInit ==
    [camera |-> FALSE, is_preview_running |-> FALSE, stop_preview |-> FALSE,
     is_recording |-> FALSE, started |-> FALSE, ui |-> "idle",
     handler |-> "none", th |-> [t \in 1..MaxPreviewThreads |-> "off"]]

RvIdle == [duration |-> 0, now |-> 0, frame_start |-> 0, frame_delay |-> 0,
           reads |-> 0, writes |-> 0, got |-> FALSE, cancelled |-> "no"]

\* what is kept of a finished record_video call: its timing locals are dead
Finished(r) ==
    [r EXCEPT !.now = 0, !.frame_start = 0, !.frame_delay = 0, !.got = FALSE]

----------------------------------------------------------------------------
(* String helpers *)

EndsWith(s, suffix) ==
    /\ Len(s) >= Len(suffix)
    /\ SubSeq(s, Len(s) - Len(suffix) + 1, Len(s)) = suffix

\* the atoms that begin with a dot
DotAtoms == {".", ".mp4", ".avi"}

\* str.rfind("."): the index of the last atom holding a dot, 0 when there is none
RFindDot(s) ==
    LET dots == {i \in 1..Len(s) : s[i] \in DotAtoms}
    IN IF dots = {} THEN 0 ELSE CHOOSE i \in dots : \A j \in dots : j <= i

\* PurePath.with_suffix(".avi"): the last suffix (a dot that is neither the
\* first nor the last character of the name) is replaced, else ".avi" is appended
WithSuffixAviKeep(name) == name
WithSuffixAvi(name) ==
    LET i == RFindDot(name)
    IN IF 1 < i /\ (i < Len(name) \/ name[i] # ".")
       THEN SubSeq(name, 1, i - 1) \o AviExt
       ELSE name \o AviExt

\* lines 138-147: timestamp name when none is given, ".mp4" forced when missing
ResolveName(filename) ==
    LET f == IF filename = NoneName THEN <<"video_ts">> \o Mp4Ext ELSE filename
    IN IF EndsWith(f, Mp4Ext) THEN f ELSE f \o Mp4Ext

\* lines 103-110 with the extension appended unconditionally
PhotoNameAlwaysAppend(filename, fmt) ==
    (IF filename = NoneName THEN <<"photo_ts", DotExt[fmt]>> ELSE filename)
        \o <<DotExt[fmt]>>

\* lines 103-110: timestamp name when none is given, ".<photo_format>"
\* appended unless the name ends with it
PhotoName(filename, fmt) ==
    LET f == IF filename = NoneName THEN <<"photo_ts", DotExt[fmt]>> ELSE filename
    IN IF EndsWith(f, <<DotExt[fmt]>>) THEN f ELSE f \o <<DotExt[fmt]>>

----------------------------------------------------------------------------
(* Guards of the recording controller *)

\* `self.cap and self.cap.isOpened()`
CameraIsOpenNoProbe == cap # "None"
CameraIsOpen == cap = "opened"

\* line 134
AlreadyRecordingUnchecked == FALSE
AlreadyRecording == is_recording

\* line 201
NotRecordingUnchecked == FALSE
NotRecording == ~is_recording

\* lines 152-158
EncoderFps == IF settings.fps <= 0 THEN FallbackFps ELSE settings.fps

\* lines 150-151 without the test of lines 155-156
EncoderSizeUnchecked == <<dev.width, dev.height>>

\* lines 150-151 and 155-156: the size the device reports, or the fallback
EncoderSize ==
    IF dev.width <= 0 \/ dev.height <= 0
    THEN <<FallbackWidth, FallbackHeight>>
    ELSE <<dev.width, dev.height>>

\* line 230: frame_delay = 1.0 / fps, in ticks (fps is never 0 here; every
\* value of FpsValues other than 0 divides TicksPerSecond)
FrameDelay(fps) ==
    IF fps > 0 THEN TicksPerSecond \div fps ELSE 0 - (TicksPerSecond \div (0 - fps))

Min(a, b) == IF a <= b THEN a ELSE b

----------------------------------------------------------------------------
(* Codec negotiation, lines 160-188 *)

\* cv2.VideoWriter(str(filepath), fourcc, fps, (width, height)) followed by
\* isOpened(): the backends of `avail` are those that initialize
Attempt(codec, path, avail) ==
    [codec |-> codec, path |-> path, fps |-> EncoderFps, size |-> EncoderSize,
     opened |-> codec \in avail]

NegotiateMp4vFirst(path, avail) ==
    LET a == Attempt("mp4v", path, avail)
        b == Attempt("avc1", path, avail)
        c == Attempt("MJPG", WithSuffixAvi(path), avail)
    IN IF a.opened THEN <<a>>
       ELSE IF b.opened THEN <<a, b>>
       ELSE <<a, b, c>>

\* the sequence of VideoWriter constructions start_recording makes
Negotiate(path, avail) ==
    LET a == Attempt("avc1", path, avail)
        b == Attempt("mp4v", path, avail)
        c == Attempt("MJPG", WithSuffixAvi(path), avail)
    IN IF a.opened THEN <<a>>
       ELSE IF b.opened THEN <<a, b>>
       ELSE <<a, b, c>>

----------------------------------------------------------------------------
(* start_recording and stop_recording as functions of the current state *)

Rejected(tag) ==
    [ret |-> Ret(tag), recording |-> is_recording, writer |-> video_writer,
     filename |-> recording_filename, sinks |-> openSinks, attempts |-> <<>>]

\* start_recording that records the path it resolved before the negotiation
StartOutcomeKeepsRequested(filename, avail) ==
    IF cap # "opened" \/ is_recording THEN Rejected("False")
    ELSE LET tries == Negotiate(ResolveName(filename), avail)
             last == tries[Len(tries)]
             w == Writer(last.codec, last.path, last.opened)
         IN IF ~last.opened
            THEN [ret |-> Ret("False"), recording |-> is_recording, writer |-> w,
                  filename |-> recording_filename, sinks |-> openSinks,
                  attempts |-> tries]
            ELSE [ret |-> Ret("True"), recording |-> TRUE, writer |-> w,
                  filename |-> ResolveName(filename), sinks |-> openSinks + 1,
                  attempts |-> tries]

\* Camera.start_recording, lines 130-192
StartOutcome(filename, avail) ==
    IF ~CameraIsOpen THEN Rejected("False")
    ELSE IF AlreadyRecording THEN Rejected("False")
    ELSE LET tries == Negotiate(ResolveName(filename), avail)
             last == tries[Len(tries)]
             w == Writer(last.codec, last.path, last.opened)
         IN IF ~last.opened
            THEN [ret |-> Ret("False"), recording |-> is_recording, writer |-> w,
                  filename |-> recording_filename, sinks |-> openSinks,
                  attempts |-> tries]
            ELSE [ret |-> Ret("True"), recording |-> TRUE, writer |-> w,
                  filename |-> last.path, sinks |-> openSinks + 1,
                  attempts |-> tries]

\* lines 205-207 without the release of the writer
StopBodyNoRelease ==
    [ret |-> RetPath(recording_filename), recording |-> FALSE,
     writer |-> WriterNone, sinks |-> openSinks]

\* lines 205-211: is_recording is cleared first; release() on a missing or
\* None writer raises AttributeError
StopBody ==
    IF video_writer.state # "writer"
    THEN [ret |-> Ret("AttributeError"), recording |-> FALSE,
          writer |-> video_writer, sinks |-> openSinks]
    ELSE [ret |-> RetPath(recording_filename), recording |-> FALSE,
          writer |-> WriterNone,
          sinks |-> IF video_writer.opened THEN openSinks - 1 ELSE openSinks]

\* Camera.stop_recording, lines 201-211
StopOutcome ==
    IF NotRecording
    THEN [ret |-> Ret("None"), recording |-> is_recording,
          writer |-> video_writer, sinks |-> openSinks]
    ELSE StopBody

----------------------------------------------------------------------------
(* Settings and the device configuration *)

\* cap.set(prop, value)
CapSet(d, prop, value) ==
    IF d.honours /\ value > 0 THEN [d EXCEPT ![prop] = value] ELSE d

\* Camera._apply_settings, lines 69-80, on a device in configuration d
ApplySettings(d, s) ==
    LET d1 == CapSet(d, "width", s.resolution[1])
        d2 == CapSet(d1, "height", s.resolution[2])
        d3 == CapSet(d2, "fps", s.fps)
        d4 == IF s.brightness # AdjustDefault
              THEN CapSet(d3, "brightness", s.brightness) ELSE d3
        d5 == IF s.contrast # AdjustDefault
              THEN CapSet(d4, "contrast", s.contrast) ELSE d4
    IN IF s.saturation # AdjustDefault
       THEN CapSet(d5, "saturation", s.saturation) ELSE d5

\* lines 318-319 and 352-353: re-apply if the camera is open
ReappliedNever(s) == dev
Reapplied(s) == IF CameraIsOpen THEN ApplySettings(dev, s) ELSE dev

\* lines 310-315 and 347-349: only keys the settings already have are stored
MergeAll(s, kwargs) ==
    [k \in DOMAIN s \cup DOMAIN kwargs |->
        IF k \in DOMAIN kwargs THEN kwargs[k] ELSE s[k]]
Merge(s, kwargs) ==
    [k \in DOMAIN s |-> IF k \in DOMAIN kwargs THEN kwargs[k] ELSE s[k]]

\* Camera.open, lines 50-56, on device d: the VideoCapture referenced before
\* is dropped, and with it its hold on the device
OpenOutcome(ok, d) ==
    IF ok
    THEN [cap |-> "opened", dev |-> ApplySettings(d, settings), held |-> 1,
          ret |-> Ret("True")]
    ELSE [cap |-> "unopened", dev |-> NoDevice, held |-> 0, ret |-> Ret("False")]

\* Camera.close that forgets the handle without releasing it
CloseOutcomeNoRelease ==
    [cap |-> "None", dev |-> dev, held |-> held]

\* Camera.close, lines 60-62
CloseOutcome ==
    IF cap # "None"
    THEN [cap |-> "None", dev |-> NoDevice, held |-> 0]
    ELSE [cap |-> cap, dev |-> dev, held |-> held]

----------------------------------------------------------------------------
Init ==
    /\ cap = "None"
    /\ is_recording = FALSE
    /\ video_writer = WriterUnset
    /\ recording_filename = NoPath
    /\ settings = DefaultSettings
    /\ openSinks = 0
    /\ op = "init"
    /\ ret = Ret("None")
    /\ attempts = <<>>
    /\ pc = "idle"
    /\ rv = RvIdle
    /\ dev = NoDevice
    /\ held = 0
    /\ io = NoIO
    /\ scope = "out"
    /\ gui = GuiInit

\* Camera.open: a new VideoCapture replaces the old handle
Open(ok, d) ==
    /\ pc = "idle"
    /\ LET o == OpenOutcome(ok, d)
       IN /\ cap' = o.cap
          /\ dev' = o.dev
          /\ held' = o.held
          /\ ret' = o.ret
    /\ op' = "open"
    /\ attempts' = <<>>
    /\ io' = NoIO
    /\ UNCHANGED <<is_recording, video_writer, recording_filename, settings,
                   openSinks, pc, scope, gui>>
    /\ rv' = RvIdle

\* Camera.close
Close ==
    /\ pc = "idle"
    /\ LET o == CloseOutcome
       IN /\ cap' = o.cap
          /\ dev' = o.dev
          /\ held' = o.held
    /\ op' = "close"
    /\ ret' = Ret("None")
    /\ attempts' = <<>>
    /\ io' = NoIO
    /\ UNCHANGED <<is_recording, video_writer, recording_filename, settings,
                   openSinks, pc, scope, gui>>
    /\ rv' = RvIdle

\* Camera.open in two steps.  Line 50, right-hand side: the new VideoCapture
\* is constructed, and opens the device when it can, while self.cap still
\* refers to the previous one.
OpenConstruct(ok, d) ==
    /\ pc = "idle"
    /\ pc' = "bind"
    /\ held' = held + (IF ok THEN 1 ELSE 0)
    /\ io' = [NoIO EXCEPT !.fresh = [ok |-> ok, dev |-> d]]
    /\ op' = "open"
    /\ ret' = Ret("pending")
    /\ attempts' = <<>>
    /\ rv' = RvIdle
    /\ UNCHANGED <<cap, is_recording, video_writer, recording_filename,
                   settings, openSinks, dev, scope, gui>>

\* Line 50, the assignment, and lines 52-56: self.cap is rebound, which drops
\* the previous VideoCapture, and the outcome is that of open
OpenBind ==
    /\ pc = "bind"
    /\ pc' = "idle"
    /\ LET o == OpenOutcome(io.fresh.ok, io.fresh.dev)
       IN /\ cap' = o.cap
          /\ dev' = o.dev
          /\ held' = o.held
          /\ ret' = o.ret
    /\ io' = NoIO
    /\ UNCHANGED <<is_recording, video_writer, recording_filename, settings,
                   openSinks, op, attempts, rv, scope, gui>>

\* Camera.update_settings(**kwargs)
UpdateSettings(kwargs) ==
    /\ pc = "idle"
    /\ settings' = Merge(settings, kwargs)
    /\ dev' = Reapplied(settings')
    /\ op' = "update_settings"
    /\ ret' = Ret("settings")
    /\ attempts' = <<>>
    /\ io' = [NoIO EXCEPT !.kwargs = kwargs]
    /\ UNCHANGED <<cap, is_recording, video_writer, recording_filename,
                   openSinks, pc, held, scope, gui>>
    /\ rv' = RvIdle

\* Camera.load_settings(filepath): the file is missing or holds a JSON object
LoadSettings(file) ==
    /\ pc = "idle"
    /\ IF file = NoFile
       THEN /\ ret' = Ret("False")
            /\ io' = NoIO
            /\ UNCHANGED <<settings, dev>>
       ELSE /\ settings' = Merge(settings, file)
            /\ dev' = Reapplied(settings')
            /\ ret' = Ret("True")
            /\ io' = [NoIO EXCEPT !.kwargs = file]
    /\ op' = "load_settings"
    /\ attempts' = <<>>
    /\ UNCHANGED <<cap, is_recording, video_writer, recording_filename,
                   openSinks, pc, held, scope, gui>>
    /\ rv' = RvIdle

\* `with cam:` entered: __enter__, lines 374-377, ignores what open returns
ScopeEnter(ok, d) ==
    /\ pc = "idle"
    /\ scope = "out"
    /\ LET o == OpenOutcome(ok, d)
       IN /\ cap' = o.cap
          /\ dev' = o.dev
          /\ held' = o.held
    /\ scope' = "in"
    /\ op' = "__enter__"
    /\ ret' = Ret("self")
    /\ attempts' = <<>>
    /\ io' = NoIO
    /\ UNCHANGED <<is_recording, video_writer, recording_filename, settings,
                   openSinks, pc, gui>>
    /\ rv' = RvIdle

\* a scope exit that closes only when the body ended normally
ScopeExitLeak(raised) ==
    /\ pc = "idle"
    /\ scope = "in"
    /\ LET o == IF raised THEN [cap |-> cap, dev |-> dev, held |-> held]
                ELSE CloseOutcome
       IN /\ cap' = o.cap
          /\ dev' = o.dev
          /\ held' = o.held
    /\ scope' = "out"
    /\ op' = "__exit__"
    /\ ret' = Ret(IF raised THEN "raised" ELSE "None")
    /\ attempts' = <<>>
    /\ io' = NoIO
    /\ UNCHANGED <<is_recording, video_writer, recording_filename, settings,
                   openSinks, pc, gui>>
    /\ rv' = RvIdle

\* the `with` block is left, by reaching its end or because its body raised
\* (an exception, or SystemExit from sys.exit): __exit__, lines 379-381,
\* closes and returns None, so what was raised propagates
ScopeExit(raised) ==
    /\ pc = "idle"
    /\ scope = "in"
    /\ LET o == CloseOutcome
       IN /\ cap' = o.cap
          /\ dev' = o.dev
          /\ held' = o.held
    /\ scope' = "out"
    /\ op' = "__exit__"
    /\ ret' = Ret(IF raised THEN "raised" ELSE "None")
    /\ attempts' = <<>>
    /\ io' = NoIO
    /\ UNCHANGED <<is_recording, video_writer, recording_filename, settings,
                   openSinks, pc, gui>>
    /\ rv' = RvIdle

\* capture_photo without the test of ret at lines 98-100
PhotoOutcomeUnchecked(filename, frame, written) ==
    IF cap # "opened"
    THEN [ret |-> Ret("None"), io |-> [NoIO EXCEPT !.name = filename]]
    ELSE [ret |-> RetPath(PhotoName(filename, settings.photo_format)),
          io |-> [NoIO EXCEPT !.name = filename,
                              !.read = IF frame THEN "frame" ELSE "noframe",
                              !.file = IF written THEN "written" ELSE "failed"]]

\* Camera.capture_photo, lines 93-117: `frame` is what cap.read() returns as
\* ret, `written` is what cv2.imwrite returns (line 115 does not look at it)
PhotoOutcome(filename, frame, written) ==
    IF ~CameraIsOpen
    THEN [ret |-> Ret("None"), io |-> [NoIO EXCEPT !.name = filename]]
    ELSE IF ~frame
    THEN [ret |-> Ret("None"),
          io |-> [NoIO EXCEPT !.name = filename, !.read = "noframe"]]
    ELSE [ret |-> RetPath(PhotoName(filename, settings.photo_format)),
          io |-> [NoIO EXCEPT !.name = filename, !.read = "frame",
                              !.file = IF written THEN "written" ELSE "failed"]]

CapturePhoto(filename, frame, written) ==
    /\ pc = "idle"
    /\ LET o == PhotoOutcome(filename, frame, written)
       IN /\ ret' = o.ret
          /\ io' = o.io
    /\ op' = "capture_photo"
    /\ attempts' = <<>>
    /\ rv' = RvIdle
    /\ UNCHANGED <<cap, is_recording, video_writer, recording_filename, settings,
                   openSinks, pc, dev, held, scope, gui>>

\* the sets of device IDs at which a VideoCapture opens
DeviceSets == SUBSET (0..MaxDeviceId)

\* the loop of lines 367-371 from ID i on, without the release of line 371
RECURSIVE ProbeFromNoRelease(_, _, _)
ProbeFromNoRelease(i, present, acc) ==
    IF i >= ProbeCount THEN acc
    ELSE ProbeFromNoRelease(i + 1, present,
            IF i \in present
            THEN [opened |-> acc.opened \cup {i},
                  available |-> Append(acc.available, i),
                  unreleased |-> acc.unreleased + 1]
            ELSE acc)

\* the loop of lines 367-371 from ID i on: VideoCapture(i) opens exactly for
\* the IDs of `present`; an opened probe is appended and released
RECURSIVE ProbeFrom(_, _, _)
ProbeFrom(i, present, acc) ==
    IF i >= ProbeCount THEN acc
    ELSE ProbeFrom(i + 1, present,
            IF i \in present
            THEN [opened |-> acc.opened \cup {i},
                  available |-> Append(acc.available, i),
                  unreleased |-> (acc.unreleased + 1) - 1]
            ELSE acc)

\* Camera.list_cameras, lines 365-372
ListCameras(present) ==
    /\ pc = "idle"
    /\ io' = [NoIO EXCEPT !.probe = ProbeFrom(0, present, NoProbe)]
    /\ op' = "list_cameras"
    /\ ret' = Ret("list")
    /\ attempts' = <<>>
    /\ rv' = RvIdle
    /\ UNCHANGED <<cap, is_recording, video_writer, recording_filename, settings,
                   openSinks, pc, dev, held, scope, gui>>

StartRecording(filename, avail) ==
    /\ pc = "idle"
    /\ LET o == StartOutcome(filename, avail)
       IN /\ is_recording' = o.recording
          /\ video_writer' = o.writer
          /\ recording_filename' = o.filename
          /\ openSinks' = o.sinks
          /\ attempts' = o.attempts
          /\ ret' = o.ret
    /\ op' = "start_recording"
    /\ rv' = RvIdle
    /\ io' = NoIO
    /\ UNCHANGED <<cap, settings, pc, dev, held, scope, gui>>

StopRecording ==
    /\ pc = "idle"
    /\ LET o == StopOutcome
       IN /\ is_recording' = o.recording
          /\ video_writer' = o.writer
          /\ openSinks' = o.sinks
          /\ ret' = o.ret
    /\ op' = "stop_recording"
    /\ attempts' = <<>>
    /\ rv' = RvIdle
    /\ io' = NoIO
    /\ UNCHANGED <<cap, recording_filename, settings, pc, dev, held, scope, gui>>

----------------------------------------------------------------------------
(* Camera.record_video, lines 224-258, one action per step *)

\* an exception leaves record_video: nothing is released on the way out
Raise(e, locals) ==
    /\ pc' = "idle"
    /\ ret' = Ret(e)
    /\ rv' = Finished(locals)
    /\ UNCHANGED <<cap, is_recording, video_writer, recording_filename,
                   settings, openSinks, op, attempts, dev, held, io, scope, gui>>

\* line 224: the call, which runs start_recording
RecordVideo(duration, filename, avail) ==
    /\ pc = "idle"
    /\ LET o == StartOutcome(filename, avail)
       IN /\ is_recording' = o.recording
          /\ video_writer' = o.writer
          /\ recording_filename' = o.filename
          /\ openSinks' = o.sinks
          /\ attempts' = o.attempts
          /\ IF o.ret.tag = "True"
             THEN pc' = "setup" /\ ret' = Ret("pending")
             ELSE pc' = "idle" /\ ret' = Ret("None")
    /\ op' = "record_video"
    /\ rv' = [RvIdle EXCEPT !.duration = duration]
    /\ io' = NoIO
    /\ UNCHANGED <<cap, settings, dev, held, scope, gui>>

\* lines 227-232, before the try block: 1.0 / fps raises when fps is 0
RvSetup ==
    /\ pc = "setup"
    /\ IF settings.fps = 0
       THEN Raise("ZeroDivisionError", rv)
       ELSE /\ rv' = [rv EXCEPT !.now = 0, !.frame_delay = FrameDelay(settings.fps)]
            /\ pc' = "check"
            /\ UNCHANGED <<cap, is_recording, video_writer, recording_filename,
                           settings, openSinks, op, ret, attempts, dev, held, io, scope, gui>>

\* lines 235-236: the loop test
RvCheck ==
    /\ pc = "check"
    /\ IF rv.now < rv.duration
       THEN pc' = "read" /\ rv' = [rv EXCEPT !.frame_start = rv.now]
       ELSE pc' = "stop" /\ UNCHANGED rv
    /\ UNCHANGED <<cap, is_recording, video_writer, recording_filename,
                   settings, openSinks, op, ret, attempts, dev, held, io, scope, gui>>

\* lines 238-243 without the `continue`: the frame is written whatever ret is
RvReadWritesAnyway(lat, outcome) ==
    /\ pc = "read"
    /\ outcome # "error"
    /\ rv' = [rv EXCEPT !.now = rv.now + lat,
                        !.reads = Min(rv.reads + 1, MaxFrames),
                        !.got = (outcome = "frame")]
    /\ pc' = "write"
    /\ UNCHANGED <<cap, is_recording, video_writer, recording_filename,
                   settings, openSinks, op, ret, attempts, dev, held, io, scope, gui>>

\* lines 238-241: cap.read() takes `lat` ticks and yields a frame (ret true),
\* no frame (ret false: the loop continues without pacing) or an error
RvRead(lat, outcome) ==
    /\ pc = "read"
    /\ LET after == [rv EXCEPT !.now = rv.now + lat,
                               !.reads = Min(rv.reads + 1, MaxFrames),
                               !.got = (outcome = "frame")]
       IN CASE outcome = "frame" ->
                 /\ rv' = after
                 /\ pc' = "write"
                 /\ UNCHANGED <<cap, is_recording, video_writer, recording_filename,
                                settings, openSinks, op, ret, attempts, dev, held, io, scope, gui>>
            [] outcome = "noframe" ->
                 /\ rv' = after
                 /\ pc' = "check"
                 /\ UNCHANGED <<cap, is_recording, video_writer, recording_filename,
                                settings, openSinks, op, ret, attempts, dev, held, io, scope, gui>>
            [] outcome = "error" -> Raise("cv2.error", after)

\* line 243: video_writer.write(frame)
RvWrite(lat, outcome) ==
    /\ pc = "write"
    /\ CASE outcome = "ok" ->
              /\ rv' = [rv EXCEPT !.now = rv.now + lat,
                                  !.writes = Min(rv.writes + 1, MaxFrames)]
              /\ pc' = "pace"
              /\ UNCHANGED <<cap, is_recording, video_writer, recording_filename,
                             settings, openSinks, op, ret, attempts, dev, held, io, scope, gui>>
         [] outcome = "error" -> Raise("cv2.error", rv)

\* lines 246-252: sleep for what is left of the frame budget
RvPace ==
    /\ pc = "pace"
    /\ LET elapsed == rv.now - rv.frame_start
       IN rv' = IF elapsed < rv.frame_delay
                THEN [rv EXCEPT !.now = rv.now + (rv.frame_delay - elapsed)]
                ELSE rv
    /\ pc' = "check"
    /\ UNCHANGED <<cap, is_recording, video_writer, recording_filename,
                   settings, openSinks, op, ret, attempts, dev, held, io, scope, gui>>

\* Ctrl+C while record_video runs, at most once per call.  Inside the try
\* block (lines 235-252) it is caught at line 254; before it (lines 227-232)
\* and after it (line 257) it leaves record_video.
Cancel ==
    /\ pc \in {"setup", "check", "read", "write", "pace", "stop"}
    /\ rv.cancelled = "no"
    /\ LET after == [rv EXCEPT !.cancelled = IF rv.now < rv.duration
                                              THEN "early" ELSE "late"]
       IN IF pc \in {"setup", "stop"}
          THEN Raise("KeyboardInterrupt", after)
          ELSE /\ pc' = "interrupted"
               /\ rv' = after
               /\ UNCHANGED <<cap, is_recording, video_writer, recording_filename,
                              settings, openSinks, op, ret, attempts, dev, held, io, scope, gui>>

\* lines 254-255
RvInterrupted ==
    /\ pc = "interrupted"
    /\ pc' = "stop"
    /\ UNCHANGED <<cap, is_recording, video_writer, recording_filename,
                   settings, openSinks, op, ret, attempts, rv, dev, held, io, scope, gui>>

\* lines 257-258: return self.stop_recording()
RvStop ==
    /\ pc = "stop"
    /\ LET o == StopOutcome
       IN /\ is_recording' = o.recording
          /\ video_writer' = o.writer
          /\ openSinks' = o.sinks
          /\ ret' = o.ret
    /\ pc' = "idle"
    /\ rv' = Finished(rv)
    /\ UNCHANGED <<cap, recording_filename, settings, op, attempts, dev, held, io, scope, gui>>

----------------------------------------------------------------------------
Next ==
    \/ \E ok \in BOOLEAN : Open(ok, Webcam)
    \/ Close
    \/ \E f \in FpsValues : UpdateSettings([fps |-> f])
    \/ \E n \in Filenames, avail \in SUBSET Codecs : StartRecording(n, avail)
    \/ StopRecording
    \/ \E d \in Durations, n \in RecordNames, avail \in SUBSET Codecs :
          RecordVideo(d, n, avail)
    \/ RvSetup
    \/ RvCheck
    \/ \E lat \in 0..MaxLatency, outcome \in {"frame", "noframe", "error"} :
          RvRead(lat, outcome)
    \/ \E lat \in 0..MaxLatency, outcome \in {"ok", "error"} : RvWrite(lat, outcome)
    \/ RvPace
    \/ Cancel
    \/ RvInterrupted
    \/ RvStop

Spec == Init /\ [][Next]_vars

----------------------------------------------------------------------------
(* record_video when nothing raises and nobody interrupts: the reads yield *)
(* a frame or none, the writes succeed.  The thread keeps running (weak    *)
(* fairness of its steps) and the clock of time.time() keeps advancing:    *)
(* reads that take at least one tick keep happening (strong fairness).     *)

ReadStep == \E lat \in 0..MaxLatency, outcome \in {"frame", "noframe"} : RvRead(lat, outcome)
TimedRead == \E lat \in 1..MaxLatency, outcome \in {"frame", "noframe"} : RvRead(lat, outcome)
WriteStep == \E lat \in 0..MaxLatency : RvWrite(lat, "ok")
LoopStep == RvSetup \/ RvCheck \/ ReadStep \/ WriteStep \/ RvPace \/ RvStop

NextLoop ==
    \/ Open(TRUE, Webcam)
    \/ \E f \in FpsValues : UpdateSettings([fps |-> f])
    \/ \E d \in Durations, n \in RecordNames, avail \in {{"avc1"}, {"MJPG"}} :
          RecordVideo(d, n, avail)
    \/ LoopStep

SpecLoop == Init /\ [][NextLoop]_vars /\ WF_vars(LoopStep) /\ SF_vars(TimedRead)

----------------------------------------------------------------------------
(* The device session: settings, device configuration, `with` scope, and   *)
(* the recording controller started on whatever the device reports.        *)

NextSession ==
    \/ \E ok \in BOOLEAN, d \in Devices : Open(ok, d)
    \/ Close
    \/ \E kwargs \in TripleKwargs : UpdateSettings(kwargs)
    \/ \E ok \in BOOLEAN, d \in Devices : ScopeEnter(ok, d)
    \/ \E raised \in BOOLEAN : ScopeExit(raised)
    \/ \E avail \in {{"avc1"}, {}} : StartRecording(NoneName, avail)
    \/ StopRecording

SpecSession == Init /\ [][NextSession]_vars

----------------------------------------------------------------------------
(* The settings store: update_settings and load_settings with recognized   *)
(* and unrecognized keys, on a closed and on an open session.              *)

NextSettings ==
    \/ \E ok \in BOOLEAN : Open(ok, Webcam)
    \/ Close
    \/ \E kwargs \in Kwargs : UpdateSettings(kwargs)
    \/ \E file \in SettingsFiles : LoadSettings(file)

SpecSettings == Init /\ [][NextSettings]_vars

----------------------------------------------------------------------------
(* Still photos: capture_photo under every photo format and file name, on  *)
(* a closed and on an open session, with reads and writes that may fail.   *)

NextPhoto ==
    \/ \E ok \in BOOLEAN : Open(ok, Webcam)
    \/ Close
    \/ \E fmt \in PhotoFormats : UpdateSettings([photo_format |-> fmt])
    \/ \E n \in PhotoNames, frame \in BOOLEAN, written \in BOOLEAN :
          CapturePhoto(n, frame, written)

SpecPhoto == Init /\ [][NextPhoto]_vars

----------------------------------------------------------------------------
(* Device enumeration: list_cameras on a session that is closed, open or   *)
(* recording.                                                              *)

NextList ==
    \/ \E ok \in BOOLEAN : Open(ok, Webcam)
    \/ Close
    \/ \E f \in SessionFps : UpdateSettings([fps |-> f])
    \/ \E avail \in {{"avc1"}, {}} : StartRecording(NoneName, avail)
    \/ StopRecording
    \/ \E present \in DeviceSets : ListCameras(present)

SpecList == Init /\ [][NextList]_vars

----------------------------------------------------------------------------
(* Device handles: open taken statement by statement, with close, the      *)
(* with-scope and settings changes around it.                              *)

NextHandles ==
    \/ \E ok \in BOOLEAN, d \in Devices : OpenConstruct(ok, d)
    \/ OpenBind
    \/ Close
    \/ \E kwargs \in TripleKwargs : UpdateSettings(kwargs)
    \/ \E ok \in BOOLEAN, d \in Devices : ScopeEnter(ok, d)
    \/ \E raised \in BOOLEAN : ScopeExit(raised)

SpecHandles == Init /\ [][NextHandles]_vars

----------------------------------------------------------------------------
(* The GUI of gui.py.  The UI thread runs one handler at a time, statement  *)
(* by statement (gui.ui is its position, gui.handler the button or window   *)
(* callback it is in; a modal message box ends the handler).  Every         *)
(* _start_camera that succeeds starts one more preview thread; gui.th[t]    *)
(* is the position of preview thread t in _preview_loop.  The threads       *)
(* share the fields without any lock, so their statements interleave.       *)
(* cap, is_recording, video_writer, ... are the fields of the Camera that   *)
(* self.camera refers to, or referred to last.                              *)

Threads == 1..MaxPreviewThreads

\* positions of a preview thread that is not running
Ended == {"off", "done", "crashed_camera", "crashed_cap", "crashed_sink"}

Live(t) == gui.th[t] \notin Ended

\* the slot of the next thread started
FreeSlot == CHOOSE t \in Threads : ~Live(t) /\ \A u \in Threads : ~Live(u) => t <= u

\* the handler returns, or _toggle_recording returns into _stop_camera, line 293
Return(g) ==
    IF g.handler \in {"stop", "closing"}
    THEN [g EXCEPT !.ui = "stop_running"]
    ELSE [g EXCEPT !.ui = "idle", !.handler = "none"]

At(t, where) == [gui EXCEPT !.th[t] = where]

CameraFrame ==
    UNCHANGED <<cap, is_recording, video_writer, recording_filename, settings,
                openSinks, dev, held>>
CallFrame == UNCHANGED <<op, ret, attempts, pc, rv, io, scope>>

\* what _start_camera passes to update_settings, gui.py lines 265-271
GuiKwargs ==
    [resolution |-> <<GuiWidth, GuiHeight>>, fps |-> GuiFps,
     photo_format |-> "png", video_format |-> "avi"]

\* _start_camera, line 258: self.camera = Camera(camera_id)
StartCamera ==
    /\ gui.ui = "idle"
    /\ ~gui.started
    /\ \E t \in Threads : ~Live(t)
    /\ gui' = [gui EXCEPT !.camera = TRUE, !.ui = "start_open", !.handler = "start"]
    /\ cap' = "None"
    /\ is_recording' = FALSE
    /\ video_writer' = WriterUnset
    /\ recording_filename' = NoPath
    /\ settings' = DefaultSettings
    /\ dev' = NoDevice
    /\ held' = 0
    /\ UNCHANGED openSinks
    /\ CallFrame

\* _start_camera, lines 260-262: self.camera.open()
StartCameraOpen(ok) ==
    /\ gui.ui = "start_open"
    /\ LET o == OpenOutcome(ok, Webcam)
       IN /\ cap' = o.cap
          /\ dev' = o.dev
          /\ held' = o.held
    /\ gui' = IF ok THEN [gui EXCEPT !.ui = "start_settings"]
              ELSE [gui EXCEPT !.ui = "idle", !.handler = "none"]
    /\ UNCHANGED <<is_recording, video_writer, recording_filename, settings,
                   openSinks>>
    /\ CallFrame

\* _start_camera, lines 265-271: self.camera.update_settings(...)
StartCameraSettings ==
    /\ gui.ui = "start_settings"
    /\ settings' = Merge(settings, GuiKwargs)
    /\ dev' = Reapplied(settings')
    /\ gui' = [gui EXCEPT !.ui = "start_running"]
    /\ UNCHANGED <<cap, is_recording, video_writer, recording_filename,
                   openSinks, held>>
    /\ CallFrame

\* _start_camera, line 273
StartCameraRunning ==
    /\ gui.ui = "start_running"
    /\ gui' = [gui EXCEPT !.is_preview_running = TRUE, !.ui = "start_clear"]
    /\ CameraFrame
    /\ CallFrame

\* _start_camera, lines 274-282: the event is cleared, the buttons switched
StartCameraClear ==
    /\ gui.ui = "start_clear"
    /\ gui' = [gui EXCEPT !.stop_preview = FALSE, !.started = TRUE,
                          !.ui = "start_thread"]
    /\ CameraFrame
    /\ CallFrame

\* _start_camera, lines 285-286: a new preview thread, the old one not joined
StartCameraThread ==
    /\ gui.ui = "start_thread"
    /\ gui' = [gui EXCEPT !.th[FreeSlot] = "test", !.ui = "idle",
                          !.handler = "none"]
    /\ CameraFrame
    /\ CallFrame

\* _stop_camera without lines 290-291
StopCameraBeginKeepsRecording(h) ==
    /\ gui.ui = "idle"
    /\ h = "stop" => gui.started
    /\ gui' = [gui EXCEPT !.handler = h, !.ui = "stop_running"]
    /\ CameraFrame
    /\ CallFrame

\* _stop_camera entered from the Stop button (h = "stop") or from
\* _on_closing (h = "closing"), lines 290-291 and 479
StopCameraBegin(h) ==
    /\ gui.ui = "idle"
    /\ h = "stop" => gui.started
    /\ gui' = [gui EXCEPT !.handler = h,
                          !.ui = IF gui.is_recording THEN "toggle_test"
                                 ELSE "stop_running"]
    /\ CameraFrame
    /\ CallFrame

\* _stop_camera, line 293
StopCameraRunning ==
    /\ gui.ui = "stop_running"
    /\ gui' = [gui EXCEPT !.is_preview_running = FALSE, !.ui = "stop_set"]
    /\ CameraFrame
    /\ CallFrame

\* _stop_camera, line 294
StopCameraSet ==
    /\ gui.ui = "stop_set"
    /\ gui' = [gui EXCEPT !.stop_preview = TRUE, !.ui = "stop_close"]
    /\ CameraFrame
    /\ CallFrame

\* _stop_camera, lines 296-297: self.camera.close()
StopCameraClose ==
    /\ gui.ui = "stop_close"
    /\ IF gui.camera
       THEN LET o == CloseOutcome
            IN /\ cap' = o.cap
               /\ dev' = o.dev
               /\ held' = o.held
       ELSE UNCHANGED <<cap, dev, held>>
    /\ gui' = [gui EXCEPT !.ui = "stop_none"]
    /\ UNCHANGED <<is_recording, video_writer, recording_filename, settings,
                   openSinks>>
    /\ CallFrame

\* _stop_camera, lines 298-309, and root.destroy() of _on_closing, line 481
StopCameraNone ==
    /\ gui.ui = "stop_none"
    /\ gui' = [gui EXCEPT !.camera = FALSE, !.started = FALSE,
                          !.handler = "none",
                          !.ui = IF gui.handler = "closing" THEN "destroyed"
                                 ELSE "idle"]
    /\ CameraFrame
    /\ CallFrame

\* the Record button: _toggle_recording
ToggleRecording ==
    /\ gui.ui = "idle"
    /\ gui.started
    /\ gui' = [gui EXCEPT !.handler = "toggle", !.ui = "toggle_test"]
    /\ CameraFrame
    /\ CallFrame

\* _toggle_recording, lines 368-371
ToggleTest ==
    /\ gui.ui = "toggle_test"
    /\ gui' = IF ~gui.camera THEN Return(gui)
              ELSE IF gui.is_recording THEN [gui EXCEPT !.ui = "stop_recording"]
              ELSE [gui EXCEPT !.ui = "start_recording"]
    /\ CameraFrame
    /\ CallFrame

\* stop_recording called at gui.py line 373: camera.py lines 201-205
GuiStopRecording ==
    /\ gui.ui = "stop_recording"
    /\ IF NotRecording
       THEN /\ gui' = [gui EXCEPT !.ui = "toggle_clear"]
            /\ UNCHANGED is_recording
       ELSE /\ gui' = [gui EXCEPT !.ui = "release"]
            /\ is_recording' = FALSE
    /\ UNCHANGED <<cap, video_writer, recording_filename, settings, openSinks,
                   dev, held>>
    /\ CallFrame

\* camera.py line 206: self.video_writer.release()
GuiStopRecordingRelease ==
    /\ gui.ui = "release"
    /\ IF video_writer.state # "writer"
       THEN /\ gui' = [gui EXCEPT !.ui = "idle", !.handler = "none"]
            /\ UNCHANGED <<video_writer, openSinks>>
       ELSE /\ gui' = [gui EXCEPT !.ui = "writer_none"]
            /\ video_writer' = [video_writer EXCEPT !.opened = FALSE]
            /\ openSinks' = StopBody.sinks
    /\ UNCHANGED <<cap, is_recording, recording_filename, settings, dev, held>>
    /\ CallFrame

\* camera.py lines 207-211: self.video_writer = None
GuiStopRecordingNone ==
    /\ gui.ui = "writer_none"
    /\ video_writer' = WriterNone
    /\ gui' = [gui EXCEPT !.ui = "toggle_clear"]
    /\ UNCHANGED <<cap, is_recording, recording_filename, settings, openSinks,
                   dev, held>>
    /\ CallFrame

\* _toggle_recording, lines 374-383
ToggleClear ==
    /\ gui.ui = "toggle_clear"
    /\ gui' = Return([gui EXCEPT !.is_recording = FALSE])
    /\ CameraFrame
    /\ CallFrame

\* _toggle_recording, lines 386-389: self.camera.start_recording(filename)
ToggleStart(avail) ==
    /\ gui.ui = "start_recording"
    /\ LET o == StartOutcome(NoneName, avail)
       IN /\ is_recording' = o.recording
          /\ video_writer' = o.writer
          /\ recording_filename' = o.filename
          /\ openSinks' = o.sinks
          /\ gui' = IF o.ret = Ret("True") THEN [gui EXCEPT !.ui = "toggle_set"]
                    ELSE Return(gui)
    /\ UNCHANGED <<cap, settings, dev, held>>
    /\ CallFrame

\* _toggle_recording, lines 390-398
ToggleSet ==
    /\ gui.ui = "toggle_set"
    /\ gui' = Return([gui EXCEPT !.is_recording = TRUE])
    /\ CameraFrame
    /\ CallFrame

\* the Photo button: _take_photo, line 352, and capture_photo up to the
\* call of self.cap.read(), camera.py lines 93-97
TakePhoto ==
    /\ gui.ui = "idle"
    /\ gui.started
    /\ gui.camera
    /\ CameraIsOpen
    /\ gui' = [gui EXCEPT !.handler = "photo", !.ui = "photo_reading"]
    /\ CameraFrame
    /\ CallFrame

\* self.cap.read() returns and capture_photo finishes, camera.py lines 97-117
TakePhotoDone ==
    /\ gui.ui = "photo_reading"
    /\ gui' = [gui EXCEPT !.ui = "idle", !.handler = "none"]
    /\ CameraFrame
    /\ CallFrame

\* _preview_loop, line 320: the loop test
PreviewTest(t) ==
    /\ gui.th[t] = "test"
    /\ gui' = IF gui.is_preview_running /\ ~gui.stop_preview
              THEN At(t, "guard") ELSE At(t, "done")
    /\ CameraFrame
    /\ CallFrame

\* line 321, first operand: self.camera
PreviewGuard(t) ==
    /\ gui.th[t] = "guard"
    /\ gui' = IF gui.camera THEN At(t, "guard_cap") ELSE At(t, "test")
    /\ CameraFrame
    /\ CallFrame

\* line 321, the other operands: self.camera.cap and self.camera.cap.isOpened()
PreviewGuardCap(t) ==
    /\ gui.th[t] = "guard_cap"
    /\ gui' = IF ~gui.camera THEN At(t, "crashed_camera")
              ELSE IF CameraIsOpen THEN At(t, "read")
              ELSE At(t, "test")
    /\ CameraFrame
    /\ CallFrame

\* line 322: self.camera.cap is loaded and its read() entered
PreviewReadBegin(t) ==
    /\ gui.th[t] = "read"
    /\ gui' = IF ~gui.camera THEN At(t, "crashed_camera")
              ELSE IF cap = "None" THEN At(t, "crashed_cap")
              ELSE At(t, "reading")
    /\ CameraFrame
    /\ CallFrame

\* line 322-323: read() returns
PreviewReadEnd(t, got) ==
    /\ gui.th[t] = "reading"
    /\ gui' = IF got THEN At(t, "recording_check") ELSE At(t, "test")
    /\ CameraFrame
    /\ CallFrame

\* line 325
PreviewRecordingCheck(t) ==
    /\ gui.th[t] = "recording_check"
    /\ gui' = IF ~gui.is_recording THEN At(t, "update")
              ELSE IF ~gui.camera THEN At(t, "crashed_camera")
              ELSE IF is_recording /\ video_writer.state = "writer"
                   THEN At(t, "write")
              ELSE At(t, "update")
    /\ CameraFrame
    /\ CallFrame

\* line 326: self.camera.video_writer.write(frame), on whatever the fields
\* hold by now
PreviewWrite(t) ==
    /\ gui.th[t] = "write"
    /\ gui' = IF ~gui.camera THEN At(t, "crashed_camera")
              ELSE IF video_writer.state # "writer" THEN At(t, "crashed_sink")
              ELSE IF ~video_writer.opened THEN At(t, "wrote_released")
              ELSE IF ~is_recording THEN At(t, "wrote_stopping")
              ELSE At(t, "wrote")
    /\ CameraFrame
    /\ CallFrame

\* line 328: self._update_preview(frame)
PreviewUpdate(t) ==
    /\ gui.th[t] \in {"update", "wrote", "wrote_released", "wrote_stopping"}
    /\ gui' = At(t, "test")
    /\ CameraFrame
    /\ CallFrame

NextGui ==
    \/ StartCamera
    \/ \E ok \in BOOLEAN : StartCameraOpen(ok)
    \/ StartCameraSettings
    \/ StartCameraRunning
    \/ StartCameraClear
    \/ StartCameraThread
    \/ \E h \in {"stop", "closing"} : StopCameraBegin(h)
    \/ StopCameraRunning
    \/ StopCameraSet
    \/ StopCameraClose
    \/ StopCameraNone
    \/ ToggleRecording
    \/ ToggleTest
    \/ GuiStopRecording
    \/ GuiStopRecordingRelease
    \/ GuiStopRecordingNone
    \/ ToggleClear
    \/ \E avail \in {{"avc1"}, {}} : ToggleStart(avail)
    \/ ToggleSet
    \/ TakePhoto
    \/ TakePhotoDone
    \/ \E t \in Threads : PreviewTest(t)
    \/ \E t \in Threads : PreviewGuard(t)
    \/ \E t \in Threads : PreviewGuardCap(t)
    \/ \E t \in Threads : PreviewReadBegin(t)
    \/ \E t \in Threads, got \in BOOLEAN : PreviewReadEnd(t, got)
    \/ \E t \in Threads : PreviewRecordingCheck(t)
    \/ \E t \in Threads : PreviewWrite(t)
    \/ \E t \in Threads : PreviewUpdate(t)

SpecGui == Init /\ [][NextGui]_vars

----------------------------------------------------------------------------
(* Properties *)

\* C1: start_recording called while the controller is Recording on an open
\* device is rejected (returns False) and leaves the recording untouched:
\* is_recording stays true, the writer is the same open writer, the recorded
\* path is unchanged and no VideoWriter is constructed.
C1_StartWhileRecordingRejected ==
    [][(op' = "start_recording" /\ is_recording /\ cap = "opened") =>
          /\ ret' = Ret("False")
          /\ is_recording'
          /\ video_writer' = video_writer
          /\ video_writer'.opened
          /\ recording_filename' = recording_filename
          /\ openSinks' = openSinks
          /\ attempts' = <<>>]_vars

C1_Witness ==
    /\ op = "start_recording" /\ ret = Ret("False") /\ attempts = <<>>
    /\ is_recording /\ cap = "opened" /\ video_writer.opened

\* C2: stop_recording called while Idle returns None and changes neither
\* is_recording, the writer, the recorded path, the device handle nor the
\* settings, in whatever state it is called.
C2_StopWhileIdleNoop ==
    [][(op' = "stop_recording" /\ ~is_recording) =>
          /\ ret' = Ret("None")
          /\ UNCHANGED <<is_recording, video_writer, recording_filename, cap,
                         settings, openSinks>>]_vars

\* stop_recording on an idle controller that recorded before and whose last
\* start failed (it still references that start's writer)
C2_Witness ==
    /\ op = "stop_recording" /\ ret = Ret("None") /\ ~is_recording
    /\ recording_filename # NoPath /\ video_writer.state = "writer"

\* C3: start_recording on a session that is not open (never opened, failed
\* to open, or closed) returns False, constructs no VideoWriter and changes
\* neither the controller state nor the recorded path.
C3_StartWhenNotOpenRejected ==
    [][(op' = "start_recording" /\ cap # "opened") =>
          /\ ret' = Ret("False")
          /\ attempts' = <<>>
          /\ UNCHANGED <<is_recording, video_writer, recording_filename,
                         openSinks>>]_vars

C3_Witness ==
    /\ op = "start_recording" /\ ret = Ret("False") /\ attempts = <<>>
    /\ cap = "unopened" /\ ~is_recording

\* C4: in every state the core operations reach, an open writer exists
\* exactly when the controller is Recording, it is the one the controller
\* references, and at most one writer is open.
C4_SinkOpenIffRecording ==
    /\ openSinks <= 1
    /\ (openSinks = 1) <=> is_recording
    /\ video_writer.opened <=> is_recording

\* Recording through the MJPG fallback after two failed constructions
C4_Witness ==
    /\ is_recording /\ openSinks = 1 /\ Len(attempts) = 3
    /\ \E i \in 1..3 : ~attempts[i].opened

\* C5: the backends are tried in the order avc1, mp4v, MJPG, each only after
\* all earlier ones failed, none after one initialized, and the writer kept
\* is that of the first backend in this order that initializes.
BackendOrder == <<"avc1", "mp4v", "MJPG">>

C5_NegotiationOrder ==
    attempts # <<>> =>
        LET n == Len(attempts) IN
        /\ n <= Len(BackendOrder)
        /\ \A i \in 1..n :
              /\ attempts[i].codec = BackendOrder[i]
              /\ i < n => ~attempts[i].opened
        /\ n < Len(BackendOrder) => attempts[n].opened
        /\ is_recording =>
              /\ attempts[n].opened
              /\ video_writer.codec = attempts[n].codec

\* avc1 failed and mp4v was selected
C5_Witness ==
    /\ op = "start_recording" /\ is_recording /\ Len(attempts) = 2
    /\ ~attempts[1].opened /\ video_writer.codec = "mp4v"

\* C6: the recorded path is the path of the open writer; it ends in .avi and
\* not in .mp4 when MJPG was selected, and in .mp4 when avc1 or mp4v was.
C6_ExtensionMatchesBackend ==
    video_writer.opened =>
        /\ recording_filename = video_writer.path
        /\ video_writer.codec = "MJPG" =>
              /\ EndsWith(recording_filename, AviExt)
              /\ ~EndsWith(recording_filename, Mp4Ext)
        /\ video_writer.codec \in {"avc1", "mp4v"} =>
              EndsWith(recording_filename, Mp4Ext)

\* "a" was requested, avc1 and mp4v failed: the recording is a.avi
C6_Witness ==
    /\ video_writer.opened /\ video_writer.codec = "MJPG"
    /\ recording_filename = <<"a", ".avi">>

\* C7: when all three backends fail, start_recording returns False, the
\* controller is Idle, it holds no writer (open or not), and the recorded
\* path of an earlier recording is kept.
C7_AllBackendsFail ==
    [][(op' = "start_recording" /\ Len(attempts') = 3 /\ ~attempts'[3].opened) =>
          /\ ret' = Ret("False")
          /\ ~is_recording'
          /\ openSinks' = 0
          /\ ~video_writer'.opened
          /\ video_writer'.state # "writer"
          /\ recording_filename' = recording_filename]_vars

\* C8: a record_video call that was cancelled before its duration elapsed
\* ends by stop_recording: the writer is released, the controller is Idle
\* and the recorded path is returned.
C8_CancelFinalizes ==
    (pc = "idle" /\ op = "record_video" /\ rv.cancelled = "early") =>
        /\ ret = RetPath(recording_filename)
        /\ ~is_recording
        /\ ~video_writer.opened
        /\ openSinks = 0

\* C9: whenever record_video has exited after its start_recording succeeded,
\* by returning or because the frame read, the write or the pacing
\* computation failed, the writer is released and the controller is Idle.
C9_FailureReleasesSink ==
    (pc = "idle" /\ op = "record_video"
        /\ ret.tag \in {"path", "ZeroDivisionError", "cv2.error"}) =>
        /\ ~is_recording
        /\ ~video_writer.opened
        /\ openSinks = 0

\* C10: record_video with duration 0 whose start_recording succeeded (and
\* that was not interrupted) reads no frame, writes none, returns the
\* recorded path and leaves the controller Idle.
C10_ZeroDuration ==
    (pc = "idle" /\ op = "record_video" /\ rv.duration = 0
        /\ ret.tag # "None" /\ rv.cancelled = "no") =>
        /\ rv.reads = 0
        /\ rv.writes = 0
        /\ ret = RetPath(recording_filename)
        /\ ~is_recording
        /\ openSinks = 0

\* C11: in the loop of record_video a read that yields no frame writes
\* nothing and leaves the recording running (the loop test is next); the
\* loop is left for stop_recording exactly when the elapsed time has reached
\* the duration; and whatever the reads yield, also when none yields a
\* frame, a call that entered the loop ends with stop_recording executed:
\* the path is returned and the controller is Idle.
C11_FailedReadsAndTermination ==
    /\ [][(pc = "read" /\ pc' \in {"check", "write"} /\ ~rv'.got) =>
              /\ pc' = "check"
              /\ rv'.writes = rv.writes
              /\ is_recording /\ is_recording'
              /\ UNCHANGED <<video_writer, openSinks, recording_filename>>]_vars
    /\ [][(pc = "check" /\ pc' # "check") =>
              pc' = IF rv.now < rv.duration THEN "read" ELSE "stop"]_vars
    /\ (pc = "check") ~>
          (pc = "idle" /\ op = "record_video" /\ ret = RetPath(recording_filename)
              /\ ~is_recording /\ openSinks = 0)

\* a call of positive duration all of whose reads failed has ended
C11_Witness ==
    /\ pc = "idle" /\ op = "record_video" /\ ret.tag = "path"
    /\ rv.duration > 0 /\ rv.reads > 0 /\ rv.writes = 0

\* C12: stop_recording executed while Recording (called directly or at the
\* end of record_video) releases the writer, leaves the controller Idle and
\* returns the path the writer of this recording was opened with, which is
\* the recorded path and ends in .avi when MJPG was selected.
C12_StopReturnsResolvedPath ==
    [][((op' = "stop_recording" \/ (pc = "stop" /\ pc' = "idle" /\ ret'.tag = "path"))
           /\ is_recording) =>
          /\ ret' = RetPath(video_writer.path)
          /\ ret'.path = recording_filename
          /\ video_writer.codec = "MJPG" => EndsWith(ret'.path, AviExt)
          /\ ~is_recording'
          /\ video_writer' = WriterNone
          /\ openSinks' = 0]_vars

\* a recording made through the MJPG fallback was stopped
C12_Witness ==
    /\ op = "stop_recording" /\ ret.tag = "path" /\ EndsWith(ret.path, AviExt)
    /\ ~is_recording /\ video_writer = WriterNone /\ openSinks = 0

\* C13: every VideoWriter that start_recording constructs on a device that
\* reports a positive width, height and frame rate is given exactly the
\* width, the height and the frame rate the device reports at that moment.
C13_EncoderFromDevice ==
    (op = "start_recording" /\ attempts # <<>>
        /\ dev.width > 0 /\ dev.height > 0 /\ dev.fps > 0) =>
        \A i \in 1..Len(attempts) :
            /\ attempts[i].size = <<dev.width, dev.height>>
            /\ attempts[i].fps = dev.fps

\* C14: update_settings stores the supplied width, height and frame rate
\* whether the session is open or not, and whenever the session is open
\* with a valid (positive) triple stored, a device that takes settings is
\* configured with exactly that triple, while a device of fixed
\* configuration is left as it was: update_settings followed by open and
\* open followed by update_settings end with the same stored settings and
\* the same device configuration.
ValidTriple(s) == s.resolution[1] > 0 /\ s.resolution[2] > 0 /\ s.fps > 0

C14_OrderIndependent ==
    /\ []((cap = "opened" /\ dev.honours /\ ValidTriple(settings)) =>
              /\ <<dev.width, dev.height>> = settings.resolution
              /\ dev.fps = settings.fps)
    /\ [][(op' = "update_settings" /\ cap = "opened" /\ ~dev.honours) =>
              dev' = dev]_vars
    /\ [][op' = "update_settings" =>
              \A k \in DOMAIN settings' :
                  settings'[k] = IF k \in DOMAIN io'.kwargs
                                 THEN io'.kwargs[k] ELSE settings[k]]_vars

\* open, then update_settings(resolution=(640, 480), fps=15) on a device
\* that reported no size when it was opened
C14_Witness ==
    /\ op = "update_settings" /\ cap = "opened" /\ dev.honours
    /\ DOMAIN io.kwargs = {"resolution", "fps"}
    /\ settings.resolution = <<640, 480>> /\ settings.fps = 15
    /\ dev.width = 640 /\ dev.height = 480 /\ dev.fps = 15
    /\ scope = "out"

\* C15: update_settings and load_settings leave the set of setting keys as
\* it was, store no key the settings do not have, and leave every key that
\* was not supplied at its value; a supplied key the settings have takes
\* the supplied value.
C15_OnlySuppliedKeysChange ==
    [][op' \in {"update_settings", "load_settings"} =>
          /\ DOMAIN settings' = DOMAIN settings
          /\ DOMAIN settings' = DOMAIN DefaultSettings
          /\ \A k \in DOMAIN settings :
                settings'[k] = IF k \in DOMAIN io'.kwargs
                               THEN io'.kwargs[k] ELSE settings[k]]_vars

\* a settings file with an unknown key and a new frame rate was loaded
C15_Witness ==
    /\ op = "load_settings" /\ ret = Ret("True")
    /\ DOMAIN io.kwargs = {"zoom", "fps"}
    /\ settings.fps = 15 /\ settings.resolution = <<640, 480>>
    /\ DOMAIN settings = DOMAIN DefaultSettings

\* C16: every call of close leaves cap None with no device handle held and
\* raises nothing, whatever the state it is called in, and touches neither
\* the settings nor the recording controller; called with cap already None
\* (closed before, or never opened) it changes nothing at all.
C16_CloseIdempotent ==
    [][op' = "close" =>
          /\ cap' = "None"
          /\ held' = 0
          /\ ret' = Ret("None")
          /\ UNCHANGED <<settings, is_recording, video_writer,
                         recording_filename, openSinks, scope>>
          /\ cap = "None" => UNCHANGED <<cap, dev, held>>]_vars

\* close was called inside a `with` block while a recording was running
C16_Witness ==
    /\ op = "close" /\ cap = "None" /\ held = 0 /\ dev = NoDevice
    /\ is_recording /\ scope = "in"

\* C17: whenever a `with` block on the camera is left, normally or by an
\* exception, and whether the open at its entry succeeded or not, the
\* session is closed and no device handle is held; outside of `with`
\* blocks a handle is held only by an open session.
C17_ScopeReleasesHandle ==
    /\ [][(scope = "in" /\ scope' = "out") =>
              (cap' = "None" /\ held' = 0 /\ dev' = NoDevice)]_vars
    /\ [](held = IF cap = "opened" THEN 1 ELSE 0)

\* the body of a `with` block raised and the block was left
C17_Witness ==
    /\ op = "__exit__" /\ ret = Ret("raised") /\ scope = "out"
    /\ cap = "None" /\ held = 0

\* the name capture_photo starts from, and the suffix of the photo format
Requested == IF io.name = NoneName
             THEN <<"photo_ts", DotExt[settings.photo_format]>> ELSE io.name
PhotoExt == <<DotExt[settings.photo_format]>>
Front(p) == SubSeq(p, 1, Len(p) - 1)

\* C18 as stated: for every photo format and every requested name the path
\* capture_photo returns ends in exactly one ".<photo_format>" suffix.
C18_ExactlyOneSuffix ==
    (op = "capture_photo" /\ ret.tag = "path") =>
        /\ EndsWith(ret.path, PhotoExt)
        /\ ~EndsWith(Front(ret.path), PhotoExt)

\* C18, amended: the returned path always ends in ".<photo_format>"; a
\* name that already ends with it is returned as it is (whatever precedes
\* the suffix, another such suffix included), a name that does not gets the
\* suffix appended once, and enforcing the extension on the returned name
\* again changes nothing.
C18_ExtensionEnforced ==
    (op = "capture_photo" /\ ret.tag = "path") =>
        /\ EndsWith(ret.path, PhotoExt)
        /\ EndsWith(Requested, PhotoExt) => ret.path = Requested
        /\ ~EndsWith(Requested, PhotoExt) =>
              /\ ret.path = Requested \o PhotoExt
              /\ ~EndsWith(Front(ret.path), PhotoExt)
        /\ PhotoName(ret.path, settings.photo_format) = ret.path

\* "a.jpg" was requested with format jpg and came back as it was
C18_Witness ==
    /\ op = "capture_photo" /\ settings.photo_format = "jpg"
    /\ io.name = <<"a", ".jpg">> /\ ret = RetPath(<<"a", ".jpg">>)

\* C19: a capture_photo call whose image write failed does not return a
\* path: every returned path is that of a file that was written.
C19_WriteFailureReported ==
    (op = "capture_photo" /\ ret.tag = "path") => io.file = "written"

\* C20: capture_photo on a session that is not open, or whose device read
\* yields no frame, returns None, writes no file and changes neither the
\* session nor the settings nor the recording controller; on a session
\* that is not open no device read is attempted.
C20_CaptureFailsCleanly ==
    [][(op' = "capture_photo" /\ (cap # "opened" \/ io'.read = "noframe")) =>
          /\ ret' = Ret("None")
          /\ io'.file = "none"
          /\ cap # "opened" => io'.read = "none"
          /\ UNCHANGED <<cap, dev, held, settings, is_recording, video_writer,
                         recording_filename, openSinks, scope>>]_vars

\* the device was open and the read yielded no frame
C20_Witness ==
    /\ op = "capture_photo" /\ cap = "opened" /\ io.read = "noframe"
    /\ ret = Ret("None") /\ io.file = "none"

\* C25: every VideoWriter that start_recording constructs is given a
\* positive width, height and frame rate; when the device reports a
\* non-positive width or height the size is 1280x720, when the configured
\* frame rate is not positive the rate is 30, and otherwise they are the
\* reported size and the configured rate.
C25_PositiveEncoderParameters ==
    (op = "start_recording" /\ attempts # <<>>) =>
        \A i \in 1..Len(attempts) :
            /\ attempts[i].size[1] > 0 /\ attempts[i].size[2] > 0
            /\ attempts[i].fps > 0
            /\ attempts[i].size =
                  IF dev.width <= 0 \/ dev.height <= 0
                  THEN <<FallbackWidth, FallbackHeight>>
                  ELSE <<dev.width, dev.height>>
            /\ attempts[i].fps =
                  IF settings.fps <= 0 THEN FallbackFps ELSE settings.fps

\* a device that reports no size, with frame rate 0 configured
C25_Witness ==
    /\ op = "start_recording" /\ attempts # <<>>
    /\ dev.width = 0 /\ dev.height = 0 /\ settings.fps = 0
    /\ attempts[1].size = <<FallbackWidth, FallbackHeight>>
    /\ attempts[1].fps = FallbackFps

\* C27: in every state reached by open, close, start_recording,
\* stop_recording and `with` blocks, a Recording controller (and an open
\* writer) implies an open device session.
C27_RecordingImpliesOpen ==
    (is_recording \/ openSinks > 0) => cap = "opened"

\* C21: list_cameras returns, in ascending order and each once, exactly the
\* IDs among 0..9 whose probe opened, leaves no probe handle open, and
\* changes neither the device handle of the session, nor its settings, nor
\* its recording state.
C21_ListCameras ==
    [][op' = "list_cameras" =>
          LET l == io'.probe.available IN
          /\ \A i \in 1..Len(l) : l[i] \in 0..(ProbeCount - 1)
          /\ \A i, j \in 1..Len(l) : i < j => l[i] < l[j]
          /\ {l[i] : i \in 1..Len(l)} = io'.probe.opened
          /\ io'.probe.unreleased = 0
          /\ UNCHANGED <<cap, dev, held, settings, is_recording, video_writer,
                         recording_filename, openSinks>>]_vars

\* devices 0 and 2 opened, 1 did not, while the session was recording
C21_Witness ==
    /\ op = "list_cameras" /\ io.probe.available = <<0, 2>>
    /\ io.probe.opened = {0, 2} /\ io.probe.unreleased = 0
    /\ cap = "opened" /\ held = 1 /\ is_recording

\* ceil(duration * frameRate), the duration being counted in ticks
FrameBound(duration, fps) == 0 - ((0 - duration * fps) \div TicksPerSecond)

\* C24: in record_video every iteration that wrote a frame has lasted at
\* least 1/frameRate when the loop test comes next, and the number of
\* frames written by record_video(d) never exceeds ceil(d * frameRate),
\* frameRate being the rate the recording was started with (the configured
\* rate, or 30 when that is not positive).
C24_PacingNeverOvershoots ==
    /\ (pc = "check" /\ rv.got) =>
          rv.now - rv.frame_start >= FrameDelay(EncoderFps)
    /\ op = "record_video" =>
          rv.writes <= FrameBound(rv.duration, EncoderFps)

\* C28: the session never holds more than one unreleased device handle,
\* open on an open session and open after a failed open included, and
\* after close it holds none.
C28_AtMostOneHandle ==
    /\ held <= 1
    /\ op = "close" => held = 0

\* C22: in the GUI the UI thread is never inside a device read (the read of
\* capture_photo) while a preview thread is inside a device read on the
\* same session.
C22_NoConcurrentReads ==
    ~(gui.ui = "photo_reading" /\ \E t \in Threads : gui.th[t] = "reading")

\* C23: in the GUI every write of a preview thread to the encoder sink
\* happens while the controller is Recording and the sink is open: no write
\* after is_recording was cleared, none to a released sink, and no
\* dereference of a sink that has become None after the recording check.
C23_WritesOnlyWhileRecording ==
    \A t \in Threads :
        gui.th[t] \notin {"wrote_stopping", "wrote_released", "crashed_sink"}

\* C26: in the GUI the device is never closed while a recording is active
\* (whenever the device is not open, both recording flags are false and no
\* encoder sink is open), and when _stop_camera completes, from the Stop
\* button or from closing the window, both recording flags are false, the
\* sink is released and the device is closed.
C26_StopCameraStopsRecordingFirst ==
    /\ [](cap # "opened" =>
            ~gui.is_recording /\ ~is_recording /\ openSinks = 0)
    /\ [][(gui.ui = "stop_none" /\ gui'.ui \in {"idle", "destroyed"}) =>
            /\ ~gui'.is_recording
            /\ ~is_recording'
            /\ openSinks' = 0
            /\ cap' = "None"
            /\ held' = 0
            /\ ~gui'.camera]_vars

\* the window is being closed during a recording: _stop_camera has run
\* stop_recording, the sink is released, the device is still open
C26_Witness ==
    /\ gui.handler = "closing"
    /\ gui.ui = "toggle_clear"
    /\ gui.is_recording
    /\ ~is_recording
    /\ video_writer = WriterNone
    /\ openSinks = 0
    /\ cap = "opened"

\* C29: in the GUI at most one preview thread runs its loop at any time,
\* and no preview thread dereferences a camera that has been set to None or
\* reads from a session that _stop_camera has closed.
C29_OnePreviewThread ==
    /\ Cardinality({t \in Threads : Live(t)}) <= 1
    /\ \A t \in Threads :
          /\ gui.th[t] \notin {"crashed_camera", "crashed_cap"}
          /\ gui.th[t] = "reading" => cap = "opened"

====
